---- MODULE Spec2Model ----
(***************************************************************************)
(* plot_anim (src/animation.py): one call, from its arguments to its       *)
(* return or its exception.  Each statement of the function is one action; *)
(* the calls into numpy and matplotlib are modelled by what those calls do *)
(* (linspace, set_xlim/set_ylim, Line2D.set_data and the draw-time recache,*)
(* FuncAnimation and the frame loop of Animation.save).                    *)
(*                                                                         *)
(* Reals are kept exact: a domain sequence is a record [den, num] whose    *)
(* i-th point is num[i] / den; axis bounds are kept in units of 1/AxisDen. *)
(***************************************************************************)
EXTENDS Integers, Sequences, FiniteSets, TLC

\* ---------------------------------------------------------------- bounds
MaxN == 3          \* largest sample count n tried
MaxSave == 2       \* largest max_frames tried; producers yield up to MaxSave + 1 frames

\* ---------------------------------------------------------------- inputs
None == "None"     \* Python's None (an absent title, label or return value)
NoName == "<no __name__>"   \* a callable without __name__ (functools.partial, ...)

Names == {"wave", "pulse", NoName}
XLims == {<<0, 5>>, <<1, 1>>, <<3, 1>>}
YLims == {<<-10, 10>>}
Decorations ==
    { [title |-> None,   xlabel |-> None, ylabel |-> None],
      [title |-> "wave", xlabel |-> "",   ylabel |-> "y"] }

Args ==
    [ name : Names, xlim : XLims, ylim : YLims, n : (-1) .. MaxN,
      max_frames : 0 .. MaxSave, deco : Decorations, gif : BOOLEAN ]

\* ---------------------------------------------------------------- helpers
Abs(v) == IF v < 0 THEN -v ELSE v

\* Python truthiness of an optional string: None and "" are falsy.
Truthy(s) == s # None /\ s # ""

\* A frame of length l whose every value is v.
ConstFrame(l, v) == [i \in 1 .. l |-> v]

\* Variant: the spacing of endpoint=False, (stop - start) / n.
LinspaceNoEndpoint(lim, n) ==
    [ den |-> IF n > 0 THEN n ELSE 1,
      num |-> [i \in 1 .. n |-> lim[1] * (IF n > 0 THEN n ELSE 1) + (i - 1) * (lim[2] - lim[1])] ]

\* np.linspace(start, stop, n) with endpoint=True, as exact rationals num[i]/den:
\* n = 0 gives the empty array, n = 1 gives [start], otherwise
\* start + (i-1) * (stop - start) / (n - 1).  (n < 0 raises; see BuildDomain.)
Linspace(lim, n) ==
    LET div == IF n > 1 THEN n - 1 ELSE 1
    IN  [ den |-> div,
          num |-> [i \in 1 .. n |-> lim[1] * div + (i - 1) * (lim[2] - lim[1])] ]

EmptyDomain == [den |-> 1, num |-> <<>>]

\* Axes.set_xlim / set_ylim: the bounds are taken as given (an inverted pair is
\* an inverted axis), except that identical bounds are expanded with a warning,
\* never an error: (0, 0) to (-0.05, 0.05), (a, a) to a -/+ 0.05 |a|.
\* (The margin is that of matplotlib 3; earlier releases expand by less.  What
\* matters below is only that the call returns and the bounds then differ.)
AxisDen == 20
SetLim(lim) ==
    IF lim[1] # lim[2] THEN <<AxisDen * lim[1], AxisDen * lim[2]>>
    ELSE IF lim[1] = 0 THEN <<-1, 1>>
    ELSE <<AxisDen * lim[1] - Abs(lim[1]), AxisDen * lim[2] + Abs(lim[2])>>

\* ---------------------------------------------------------------- state
VARIABLES
    pc,        \* the statement the call is at, "done" or "error"
    args,      \* the arguments of the call
    k,         \* the number of frames the producer yields before it stops
    x,         \* the domain sequence (line 44)
    gen,       \* the producer's lazy sequence g: [made, calls, domain, yielded, exhausted]
    surface,   \* the figure and axes: [figs, open, closes, xlim, ylim, title, xlabel, ylabel]
    line,      \* the line artifact: [made, xdata, ydata]
    anim,      \* the FuncAnimation object: [made, save_count, init_func, blit, target,
               \*   saves, pulled, inits, updates, drawn, video]
    cur,       \* the frame the engine holds between pulling it and grabbing it
    encoded,   \* the frames grabbed by the writer so far, as drawn: [x, y]
    rcHtml,    \* rcParams['animation.html']
    files,     \* the files that exist: a set of [name, frames]
    written,   \* the names of the files written so far, deleted since or not
    result,    \* the return value: [kind |-> None] or [kind |-> "HTML", frames |-> ...]
    err        \* the exception that ended the call, or None

vars == <<pc, args, k, x, gen, surface, line, anim, cur, encoded, rcHtml, files, written, result, err>>

NoSurface ==
    [ figs |-> 0, open |-> FALSE, closes |-> 0, xlim |-> <<0, AxisDen>>, ylim |-> <<0, AxisDen>>,
      title |-> None, xlabel |-> None, ylabel |-> None ]
NoLine == [made |-> FALSE, xdata |-> EmptyDomain, ydata |-> <<>>]
NoAnim ==
    [ made |-> FALSE, save_count |-> 0, init_func |-> FALSE, blit |-> FALSE,
      target |-> [kind |-> "none", path |-> ""], saves |-> 0,
      pulled |-> 0, inits |-> 0, updates |-> 0, drawn |-> <<>>, video |-> <<>> ]
NoResult == [kind |-> None, frames |-> <<>>]
NoGen == [made |-> FALSE, calls |-> 0, domain |-> EmptyDomain, yielded |-> <<>>, exhausted |-> FALSE]

Init ==
    /\ pc = "linspace"
    /\ args \in Args
    /\ k \in 0 .. MaxSave + 1
    /\ x = EmptyDomain
    /\ gen = NoGen
    /\ surface = NoSurface
    /\ line = NoLine
    /\ anim = NoAnim
    /\ cur = <<>>
    /\ encoded = <<>>
    /\ rcHtml = "none"
    /\ files = {}
    /\ written = {}
    /\ result = NoResult
    /\ err = None

\* An exception leaves plot_anim: nothing catches it (no try in the function).
Raise(e) == pc' = "error" /\ err' = e

\* ------------------------------------------------ lines 44-66: constructing
\* line 44: x = np.linspace(xlim[0], xlim[1], n); a negative n raises ValueError.
BuildDomain ==
    /\ pc = "linspace"
    /\ IF args.n < 0
         THEN Raise("ValueError: number of samples") /\ x' = x
         ELSE pc' = "frame_gen" /\ x' = Linspace(args.xlim, args.n) /\ err' = err
    /\ UNCHANGED <<args, k, gen, surface, line, anim, cur, encoded, rcHtml, files, written, result>>

\* Variant: the producer is invoked a second time for the engine's frames.
InvokeProducerTwice ==
    /\ pc = "frame_gen"
    /\ gen' = [gen EXCEPT !.made = TRUE, !.calls = @ + 2, !.domain = x]
    /\ pc' = "subplots"
    /\ UNCHANGED <<args, k, x, surface, line, anim, cur, encoded, rcHtml, files, written, result, err>>

\* line 45: g = frame_gen(x); calling a generator function runs none of its body.
InvokeProducer ==
    /\ pc = "frame_gen"
    /\ gen' = [gen EXCEPT !.made = TRUE, !.calls = @ + 1, !.domain = x]
    /\ pc' = "subplots"
    /\ UNCHANGED <<args, k, x, surface, line, anim, cur, encoded, rcHtml, files, written, result, err>>

\* line 48: fig, ax = plt.subplots(); the new figure is the current figure.
Subplots ==
    /\ pc = "subplots"
    /\ surface' = [surface EXCEPT !.figs = @ + 1, !.open = TRUE]
    /\ pc' = "set_xlim"
    /\ UNCHANGED <<args, k, x, gen, line, anim, cur, encoded, rcHtml, files, written, result, err>>

\* line 49: ax.set_xlim(xlim)
SetXlim ==
    /\ pc = "set_xlim"
    /\ surface' = [surface EXCEPT !.xlim = SetLim(args.xlim)]
    /\ pc' = "set_ylim"
    /\ UNCHANGED <<args, k, x, gen, line, anim, cur, encoded, rcHtml, files, written, result, err>>

\* line 50: ax.set_ylim(ylim)
SetYlim ==
    /\ pc = "set_ylim"
    /\ surface' = [surface EXCEPT !.ylim = SetLim(args.ylim)]
    /\ pc' = "decorate"
    /\ UNCHANGED <<args, k, x, gen, line, anim, cur, encoded, rcHtml, files, written, result, err>>

\* lines 51-53: if title: plt.title(title); likewise xlabel, ylabel.
Decorate ==
    /\ pc = "decorate"
    /\ surface' = [surface EXCEPT
                     !.title  = IF Truthy(args.deco.title)  THEN args.deco.title  ELSE @,
                     !.xlabel = IF Truthy(args.deco.xlabel) THEN args.deco.xlabel ELSE @,
                     !.ylabel = IF Truthy(args.deco.ylabel) THEN args.deco.ylabel ELSE @]
    /\ pc' = "plot"
    /\ UNCHANGED <<args, k, x, gen, line, anim, cur, encoded, rcHtml, files, written, result, err>>

\* line 56: line, = ax.plot([], [], lw=2)
PlotLine ==
    /\ pc = "plot"
    /\ line' = [made |-> TRUE, xdata |-> EmptyDomain, ydata |-> <<>>]
    /\ pc' = "FuncAnimation"
    /\ UNCHANGED <<args, k, x, gen, surface, anim, cur, encoded, rcHtml, files, written, result, err>>

\* lines 59-61: init_frame() sets the line's data to ([], []) and returns (line,).
init_frame(l) == [l EXCEPT !.xdata = EmptyDomain, !.ydata = <<>>]

\* Variant: only the x data is set.
animateKeepsY(l, xs, y) == [l EXCEPT !.xdata = xs]

\* lines 64-66: animate(y) sets the line's data to (x, y) and returns (line,).
\* Line2D.set_data stores both as given; lengths are compared only at draw time.
animate(l, xs, y) == [l EXCEPT !.xdata = xs, !.ydata = y]

\* The artists both callbacks return: the 1-tuple (line,).
ReturnedArtists == <<"line">>

\* -------------------------------------------------- lines 70-71: running
\* Variant: save_count is one short.
MakeAnimationOffByOne ==
    /\ pc = "FuncAnimation"
    /\ \E draws \in BOOLEAN :
          /\ anim' = [anim EXCEPT !.made = TRUE, !.save_count = args.max_frames - 1,
                                  !.init_func = TRUE, !.blit = TRUE,
                                  !.inits = IF draws THEN @ + 1 ELSE @,
                                  !.drawn = IF draws THEN ReturnedArtists ELSE @]
          /\ line' = IF draws THEN init_frame(line) ELSE line
    /\ pc' = "close"
    /\ UNCHANGED <<args, k, x, gen, surface, cur, encoded, rcHtml, files, written, result, err>>

\* anim = FuncAnimation(fig, animate, init_func=init_frame, save_count=max_frames,
\*                      frames=g, interval=delay, blit=True)
\* The constructor stores its arguments and pulls no frame.  With blit=True it
\* sets up blitting, which draws the figure where the canvas draws at once (an
\* Agg canvas): that first draw starts the animation, whose initial draw calls
\* init_frame(), here, before plt.close().  Where the blit set-up waits for the
\* first draw of the figure, nothing is drawn and init_frame is not called yet.
MakeAnimation ==
    /\ pc = "FuncAnimation"
    /\ \E draws \in BOOLEAN :
          /\ anim' = [anim EXCEPT !.made = TRUE, !.save_count = args.max_frames,
                                  !.init_func = TRUE, !.blit = TRUE,
                                  !.inits = IF draws THEN @ + 1 ELSE @,
                                  !.drawn = IF draws THEN ReturnedArtists ELSE @]
          /\ line' = IF draws THEN init_frame(line) ELSE line
    /\ pc' = "close"
    /\ UNCHANGED <<args, k, x, gen, surface, cur, encoded, rcHtml, files, written, result, err>>

\* ------------------------------------------------------ line 74: closing
\* Variant: the close is left out.
CloseSkipped ==
    /\ pc = "close"
    /\ pc' = "if_gif"
    /\ UNCHANGED <<args, k, x, gen, surface, line, anim, cur, encoded, rcHtml, files, written, result, err>>

\* Variant: the close sits in the else branch, so the file path never closes.
CloseOnlyHtml ==
    /\ pc = "close"
    /\ surface' = IF args.gif THEN surface ELSE [surface EXCEPT !.open = FALSE, !.closes = @ + 1]
    /\ pc' = "if_gif"
    /\ UNCHANGED <<args, k, x, gen, line, anim, cur, encoded, rcHtml, files, written, result, err>>

\* plt.close() closes the current figure, which is the one line 48 made.
Close ==
    /\ pc = "close"
    /\ surface' = [surface EXCEPT !.open = FALSE, !.closes = @ + 1]
    /\ pc' = "if_gif"
    /\ UNCHANGED <<args, k, x, gen, line, anim, cur, encoded, rcHtml, files, written, result, err>>

\* --------------------------------------------------- lines 76-83: emitting
\* Variant: the test is inverted.
BranchInverted ==
    /\ pc = "if_gif"
    /\ pc' = IF args.gif THEN "rc" ELSE "save"
    /\ UNCHANGED <<args, k, x, gen, surface, line, anim, cur, encoded, rcHtml, files, written, result, err>>

\* line 76: if gif: ... else: ...
Branch ==
    /\ pc = "if_gif"
    /\ pc' = IF args.gif THEN "save" ELSE "rc"
    /\ UNCHANGED <<args, k, x, gen, surface, line, anim, cur, encoded, rcHtml, files, written, result, err>>

\* Variant: a fixed file name.
GifNameFixed(name) == "animation.gif"

\* line 78: the file name is frame_gen.__name__ + '.gif'.
GifName(name) == name \o ".gif"

\* line 78: anim.save(frame_gen.__name__+'.gif', writer='imagemagick'); the
\* argument is evaluated first, and a callable without __name__ raises there.
SaveGif ==
    /\ pc = "save"
    /\ IF args.name = NoName
         THEN Raise("AttributeError: __name__") /\ anim' = anim
         ELSE /\ anim' = [anim EXCEPT !.target = [kind |-> "file", path |-> GifName(args.name)],
                                      !.saves = @ + 1]
              /\ pc' = "engine_init"
              /\ err' = err
    /\ UNCHANGED <<args, k, x, gen, surface, line, cur, encoded, rcHtml, files, written, result>>

\* line 81: rc('animation', html='html5')
SetRc ==
    /\ pc = "rc"
    /\ rcHtml' = "html5"
    /\ pc' = "to_html5_video"
    /\ UNCHANGED <<args, k, x, gen, surface, line, anim, cur, encoded, files, written, result, err>>

\* The video file of to_html5_video, inside a temporary directory.
TempVideo == "temp.m4v"

\* line 83, inner call: anim.to_html5_video() saves the animation to a video
\* file in a temporary directory, reads it back and deletes it (ReadBackVideo).
ToHtml5Video ==
    /\ pc = "to_html5_video"
    /\ anim' = [anim EXCEPT !.target = [kind |-> "video", path |-> TempVideo], !.saves = @ + 1]
    /\ pc' = "engine_init"
    /\ UNCHANGED <<args, k, x, gen, surface, line, cur, encoded, rcHtml, files, written, result, err>>

\* ------------------------------------ the engine's frame loop (Animation.save)
\* An exception inside the loop leaves plot_anim.  The writer is finished on
\* the way out: on the file path that may leave a file of the frames grabbed so
\* far; on the video path whatever was written goes with the temporary directory.
EngineRaise(e) ==
    /\ Raise(e)
    /\ \/ files' = files /\ written' = written
       \/ /\ anim.target.kind = "file"
          /\ files' = files \cup {[name |-> anim.target.path, frames |-> encoded]}
          /\ written' = written \cup {anim.target.path}
       \/ /\ anim.target.kind = "video"
          /\ files' = files
          /\ written' = written \cup {anim.target.path}

\* anim._init_draw(): with an init_func, it is called and no frame is pulled.
EngineInitDraw ==
    /\ pc = "engine_init"
    /\ line' = init_frame(line)
    /\ anim' = [anim EXCEPT !.inits = @ + 1, !.drawn = ReturnedArtists]
    /\ pc' = "engine_pull"
    /\ UNCHANGED <<args, k, x, gen, surface, cur, encoded, rcHtml, files, written, result, err>>

\* The next item of itertools.islice(g, save_count): after save_count items the
\* loop ends without asking g again; otherwise g yields its next frame, stops
\* (StopIteration ends the loop) or raises.
EnginePull ==
    /\ pc = "engine_pull"
    /\ IF anim.pulled >= anim.save_count
         THEN /\ pc' = "engine_finish"
              /\ UNCHANGED <<gen, anim, cur, files, written, err>>
         ELSE \/ /\ Len(gen.yielded) < k
                 /\ \E l \in 0 .. MaxN + 1 :
                      LET y == ConstFrame(l, Len(gen.yielded))
                      IN  /\ gen' = [gen EXCEPT !.yielded = Append(@, y)]
                          /\ cur' = y
                 /\ anim' = [anim EXCEPT !.pulled = @ + 1]
                 /\ pc' = "engine_update"
                 /\ UNCHANGED <<files, written, err>>
              \/ /\ Len(gen.yielded) = k
                 /\ gen' = [gen EXCEPT !.exhausted = TRUE]
                 /\ pc' = "engine_finish"
                 /\ UNCHANGED <<anim, cur, files, written, err>>
              \/ /\ EngineRaise("error raised by the frame producer")
                 /\ UNCHANGED <<gen, anim, cur>>
    /\ UNCHANGED <<args, k, x, surface, line, encoded, rcHtml, result>>

\* anim._draw_next_frame(y): the update step animate(y) runs on the pulled frame.
EngineUpdate ==
    /\ pc = "engine_update"
    /\ line' = animate(line, x, cur)
    /\ anim' = [anim EXCEPT !.updates = @ + 1, !.drawn = ReturnedArtists]
    /\ pc' = "engine_grab"
    /\ UNCHANGED <<args, k, x, gen, surface, cur, encoded, rcHtml, files, written, result, err>>

\* Drawing the line (Line2D.recache) broadcasts x and y to one shape: equal
\* lengths are kept, a length-1 side is stretched to the other's length, and
\* any other pair of lengths raises ValueError.
CanBroadcast(lx, ly) == lx = ly \/ lx = 1 \/ ly = 1
BroadcastLen(lx, ly) == IF lx = 1 THEN ly ELSE lx
Stretch(s, t) == [i \in 1 .. t |-> IF Len(s) = 1 THEN s[1] ELSE s[i]]
Drawn(l) ==
    LET t == BroadcastLen(Len(l.xdata.num), Len(l.ydata))
    IN  [ x |-> [den |-> l.xdata.den, num |-> Stretch(l.xdata.num, t)],
          y |-> Stretch(l.ydata, t) ]

\* writer.grab_frame(): the figure is drawn and the picture is handed to the writer.
EngineGrab ==
    /\ pc = "engine_grab"
    /\ IF CanBroadcast(Len(line.xdata.num), Len(line.ydata))
         THEN /\ encoded' = Append(encoded, Drawn(line))
              /\ pc' = "engine_pull"
              /\ UNCHANGED <<files, written, err>>
         ELSE /\ EngineRaise("ValueError: shape mismatch")
              /\ encoded' = encoded
    /\ cur' = <<>>
    /\ UNCHANGED <<args, k, x, gen, surface, line, anim, rcHtml, result>>

\* writer.finish(): the external encoder (imagemagick, ffmpeg) writes the output
\* or fails.  On the file path the call then falls off the end and returns None.
EngineFinish ==
    /\ pc = "engine_finish"
    /\ \/ /\ files' = files \cup {[name |-> anim.target.path, frames |-> encoded]}
          /\ written' = written \cup {anim.target.path}
          /\ pc' = IF anim.target.kind = "file" THEN "done" ELSE "read_video"
          /\ err' = err
       \/ EngineRaise("encoder failed")
    /\ UNCHANGED <<args, k, x, gen, surface, line, anim, cur, encoded, rcHtml, result>>

\* line 83, inner call, second half: to_html5_video reads the video file back
\* into the animation and the temporary directory, with the file, is removed.
ReadBackVideo ==
    /\ pc = "read_video"
    /\ \E f \in files :
          /\ f.name = anim.target.path
          /\ anim' = [anim EXCEPT !.video = f.frames]
          /\ files' = files \ {f}
    /\ pc' = "HTML"
    /\ UNCHANGED <<args, k, x, gen, surface, line, cur, encoded, rcHtml, written, result, err>>

\* line 83: return HTML(<the video>)
ReturnHTML ==
    /\ pc = "HTML"
    /\ result' = [kind |-> "HTML", frames |-> anim.video]
    /\ pc' = "done"
    /\ UNCHANGED <<args, k, x, gen, surface, line, anim, cur, encoded, rcHtml, files, written, err>>

Next ==
    \/ BuildDomain
    \/ InvokeProducer
    \/ Subplots
    \/ SetXlim
    \/ SetYlim
    \/ Decorate
    \/ PlotLine
    \/ MakeAnimation
    \/ Close
    \/ Branch
    \/ SaveGif
    \/ SetRc
    \/ ToHtml5Video
    \/ EngineInitDraw
    \/ EnginePull
    \/ EngineUpdate
    \/ EngineGrab
    \/ EngineFinish
    \/ ReadBackVideo
    \/ ReturnHTML

Spec == Init /\ [][Next]_vars

\* ================================================================= claims
Returned == pc = "done"
Failed == pc = "error"

\* The frames of the output artifact of a returned call.
OutputFrames ==
    IF args.gif THEN (CHOOSE f \in files : TRUE).frames ELSE result.frames

\* The statements of the four phases, and the two ends of a call.
Constructing == {"linspace", "frame_gen", "subplots", "set_xlim", "set_ylim", "decorate", "plot"}
Running == {"FuncAnimation"}
Closing == {"close"}
Emitting == {"if_gif", "save", "rc", "to_html5_video", "engine_init", "engine_pull",
             "engine_update", "engine_grab", "engine_finish", "read_video", "HTML"}
Phase(p) ==
    IF p \in Constructing THEN 1
    ELSE IF p \in Running THEN 2
    ELSE IF p \in Closing THEN 3
    ELSE IF p \in Emitting THEN 4
    ELSE 5

\* The exceptions raised by the statements of the emitting phase.
EmittingErrors ==
    { "AttributeError: __name__", "error raised by the frame producer",
      "ValueError: shape mismatch", "encoder failed" }

\* C1 as stated: a call that returns has produced exactly one output artifact;
\* without gif it returns an HTML object and performs no file write at any
\* point of the call; with gif it writes one file and returns None.
C1_NoFileWriteWithoutGif ==
    /\ ~args.gif => written = {}
    /\ Returned =>
         IF args.gif
           THEN result = NoResult /\ Cardinality(files) = 1
           ELSE result.kind = "HTML" /\ files = {}

\* C1, amended: a call that returns has produced exactly one output artifact.
\* Without gif it returns an HTML object and leaves no file behind: the only
\* file it ever writes is the temporary video file of to_html5_video, which is
\* deleted before the return.  With gif it writes exactly one file, which
\* remains, and returns None.
C1_OneArtifact ==
    /\ ~args.gif =>
          /\ written \subseteq {TempVideo}
          /\ \A f \in files : f.name = TempVideo
    /\ Returned =>
         IF args.gif
           THEN /\ result = NoResult
                /\ Cardinality(files) = 1
                /\ Cardinality(written) = 1
                /\ \A f \in files : f.name \in written
           ELSE /\ result.kind = "HTML"
                /\ files = {}

C1_Witness ==
    /\ Returned /\ ~args.gif /\ k = 2 /\ k <= args.max_frames
    /\ result.kind = "HTML" /\ Len(result.frames) = 2
    /\ written = {TempVideo} /\ files = {}

\* C2: when the producer yields exactly k frames, k <= max_frames, and the call
\* returns, the output holds exactly k frames, the i-th being the drawing of the
\* i-th yielded frame; animate ran once per yielded frame, k times, and the
\* initialization step ran without pulling a frame: exactly k were pulled.
C2_AllFramesInOrder ==
    (Returned /\ k <= args.max_frames) =>
        /\ Len(gen.yielded) = k
        /\ anim.pulled = k
        /\ anim.updates = k
        /\ anim.inits >= 1
        /\ Len(OutputFrames) = k
        /\ \A i \in 1 .. k :
              OutputFrames[i].y = Stretch(gen.yielded[i], Len(OutputFrames[i].y))

C2_Witness ==
    /\ Returned /\ args.gif /\ k = 2 /\ args.max_frames = 2 /\ args.n = 3
    /\ anim.inits = 2 /\ anim.updates = 2
    /\ OutputFrames = << [x |-> gen.domain, y |-> <<0, 0, 0>>],
                         [x |-> gen.domain, y |-> <<1, 1, 1>>] >>

\* C3: the figure is closed exactly once, after it was created and before the
\* return, on both output paths.
C3_ClosedBeforeReturn ==
    /\ surface.closes <= surface.figs
    /\ surface.open => surface.closes = 0
    /\ Returned => surface.figs = 1 /\ surface.closes = 1 /\ ~surface.open

C3_Witness == Returned /\ args.gif /\ surface.closes = 1 /\ ~surface.open

\* C4: the domain sequence passed to the producer has exactly n entries; for
\* n >= 2 the first is xlim[0], the last is xlim[1] and consecutive entries
\* differ by (xlim[1] - xlim[0]) / (n - 1); it is the x data of every frame.
C4_DomainEvenlySpaced ==
    LET d == gen.domain
        n == args.n
    IN  /\ gen.made =>
            /\ Len(d.num) = n
            /\ d.den > 0
            /\ n >= 2 =>
                 /\ d.num[1] = args.xlim[1] * d.den
                 /\ d.num[n] = args.xlim[2] * d.den
                 /\ \A i \in 1 .. n - 1 :
                       (d.num[i + 1] - d.num[i]) * (n - 1) = (args.xlim[2] - args.xlim[1]) * d.den
        /\ anim.updates > 0 => line.xdata = d /\ x = d

C4_Witness ==
    /\ args.n = 3 /\ args.xlim = <<0, 5>> /\ anim.updates = 2
    /\ gen.domain = [den |-> 2, num |-> <<0, 5, 10>>]

\* C5: on the file path (gif true) every file written is named
\* <producer name>.gif, whatever the title, labels and ranges; at most one file
\* is written, and a returned call wrote exactly that one, which exists.
C5_FileNamedAfterProducer ==
    args.gif =>
        /\ \A f \in files : f.name = args.name \o ".gif"
        /\ \A nm \in written : nm = args.name \o ".gif"
        /\ Cardinality(files) <= 1
        /\ Returned =>
              /\ written = {args.name \o ".gif"}
              /\ \E f \in files : f.name = args.name \o ".gif"

C5_Witness ==
    /\ Returned /\ args.gif /\ args.name = "pulse" /\ surface.title = "wave"
    /\ written = {"pulse.gif"}
    /\ \E f \in files : f.name = "pulse.gif"

\* C6: a yielded frame whose length differs from sample_count ends the call
\* with an error: no call returns after such a frame, and no such frame is
\* ever among the encoded frames.
C6_MismatchRaises ==
    /\ Returned => \A i \in 1 .. Len(gen.yielded) : Len(gen.yielded[i]) = args.n
    /\ \A i \in 1 .. Len(encoded) : Len(gen.yielded[i]) = args.n

\* C7: a call with sample_count = 0 or with xlim[0] = xlim[1] never returns
\* normally.
C7_DegenerateRaises ==
    Returned => args.n # 0 /\ args.xlim[1] # args.xlim[2]

\* C8: the call moves through constructing, running, closing, emitting in this
\* order and never back; the fork is the one test of gif; the producer is
\* invoked exactly once and before the figure exists, the engine has the
\* figure before the close, and the close precedes every encoding step (the
\* save or video call, every pull, update and grab of a frame, every file write).
C8_PhaseInvariant ==
    /\ gen.calls <= 1
    /\ surface.figs <= 1
    /\ surface.figs = 1 => gen.calls = 1
    /\ surface.closes = 1 => anim.made /\ surface.figs = 1
    /\ anim.made => surface.figs = 1 /\ line.made
    /\ Phase(pc) = 4 => anim.made /\ surface.closes = 1
    /\ ( \/ anim.target.kind # "none" \/ anim.saves > 0 \/ anim.pulled > 0
         \/ anim.updates > 0 \/ encoded # <<>> \/ written # {} ) => surface.closes = 1
    /\ anim.saves <= 1
    /\ anim.target.kind = (IF args.gif THEN "file" ELSE "video") \/ anim.target.kind = "none"

C8_PhaseStep ==
    /\ Phase(pc') \in {Phase(pc), Phase(pc) + 1, 5}
    /\ Phase(pc) \in {2, 3} => Phase(pc') # Phase(pc)
    /\ pc = "if_gif" => pc' = (IF args.gif THEN "save" ELSE "rc")
    /\ pc \in {"save", "to_html5_video"} => pc' \in {"engine_init", "error"}
    /\ pc' = "engine_init" => pc \in {"save", "to_html5_video"}

\* C8: the phase invariant holds in every state and every step obeys the
\* phase order (constructing, running, closing, emitting; never back).
C8_LinearPhases == [](C8_PhaseInvariant) /\ [][C8_PhaseStep]_vars

C8_Witness ==
    /\ Returned /\ gen.calls = 1 /\ anim.saves = 1 /\ anim.updates = 2
    /\ surface.closes = 1 /\ anim.inits = 2

\* C9: the line's data is empty until the first update and after init_frame;
\* after the i-th update it is (x, y_i); init_frame runs before the first
\* update; both callbacks return the line alone and leave the axes and the
\* decorations as constructed.
C9_LineInvariant ==
    line.made =>
      /\ \/ line.xdata = EmptyDomain /\ line.ydata = <<>>
         \/ /\ anim.updates >= 1
            /\ line.xdata = x
            /\ line.ydata = gen.yielded[anim.updates]
      /\ anim.updates = 0 => line.xdata = EmptyDomain /\ line.ydata = <<>>
      /\ anim.updates >= 1 =>
            /\ anim.inits >= 1
            /\ anim.updates <= Len(gen.yielded)
            /\ line.xdata = x
            /\ line.ydata = gen.yielded[anim.updates]
      /\ anim.inits + anim.updates > 0 => anim.drawn = <<"line">>

C9_CallbackStep ==
    /\ (anim'.inits # anim.inits \/ anim'.updates # anim.updates) =>
          /\ surface' = surface
          /\ x' = x
          /\ anim'.drawn = <<"line">>
    /\ anim'.inits # anim.inits =>
          /\ anim'.inits = anim.inits + 1
          /\ anim'.updates = anim.updates
          /\ gen' = gen
          /\ line'.xdata = EmptyDomain /\ line'.ydata = <<>>
    /\ anim'.updates # anim.updates =>
          /\ anim'.updates = anim.updates + 1
          /\ line'.xdata = x /\ line'.ydata = cur
          /\ cur = gen.yielded[anim'.updates]

\* C9: the line's data is always empty or (x, the last yielded frame), and
\* every init_frame / animate step changes the line alone.
C9_LineData == [](C9_LineInvariant) /\ [][C9_CallbackStep]_vars

C9_Witness ==
    /\ pc = "engine_grab" /\ anim.updates = 2 /\ args.n = 2
    /\ line.ydata = <<1, 1>> /\ line.xdata = x
    /\ anim.inits = 2 /\ anim.drawn = <<"line">>
    /\ surface.title = "wave"

\* C10: a call ended by an exception of the emitting phase has its figure
\* closed and returned nothing, after at most one save or video call on a
\* producer invoked once (no retry); and no frame is pulled from the producer
\* before the close.
C10_EmittingErrorAfterClose ==
    /\ (Failed /\ err \in EmittingErrors) =>
          /\ ~surface.open
          /\ surface.closes = 1
          /\ result = NoResult
          /\ anim.saves <= 1
          /\ gen.calls = 1
          /\ anim.pulled = Len(gen.yielded)
    /\ surface.closes = 0 => anim.pulled = 0 /\ gen.yielded = <<>>
    /\ Failed => err # None

C10_Witness ==
    /\ Failed /\ err = "ValueError: shape mismatch" /\ args.gif
    /\ Len(encoded) = 1 /\ ~surface.open /\ anim.saves = 1 /\ anim.inits = 2

====
